---- MODULE Spec2Model ----
(***************************************************************************)
(* Video proxy / cache server: background full download (downloadFull),    *)
(* range-aware streaming of cached files (GET /stream/:id), inactivity     *)
(* sweep, admin upload and delete, and the metadata store (videos,         *)
(* videos.json).  Two implementations are in the repository:               *)
(*   "proxy"     = src/video-proxy-server/server.js                        *)
(*   "mainframe" = src/video_proxy_system/mainframe_server/server.js       *)
(* and the variable impl says which one a behaviour runs.                  *)
(***************************************************************************)
EXTENDS Integers, Sequences, FiniteSets, TLC

(***************************************************************************)
(* Bounds of the model.                                                    *)
(***************************************************************************)
\* Date.now() runs over 1..MaxTime (abstract clock units).
MaxTime == 3
\* Number of entry-creating requests (GET /add, POST /admin/upload).
MaxReqs == 2
\* Length of the longest origin body, in bytes.
BodyLen == 2

\* Inactivity threshold in clock units (INACTIVITY_MINUTES * 60 * 1000 in
\* the source, configurable through the environment).
INACTIVITY_MS == 1

(***************************************************************************)
(* Inputs.                                                                 *)
(***************************************************************************)
Impls == {"proxy", "mainframe"}
Urls == {"http://x/a"}

\* What the origin serves for a URL: BodyLen bytes.  Bytes are positive
\* integers, 0 is the byte a hole in a file reads as.
OriginBody(url) == [i \in 1..BodyLen |-> i]

\* Uploaded files: originalname split at its extension, and the content.
UploadFiles == { [base |-> "clip", ext |-> ".mp4", data |-> <<7>>] }

(***************************************************************************)
(* Strings are sequences of one-character strings.                         *)
(***************************************************************************)
Digits == <<"0", "1", "2", "3", "4", "5", "6", "7", "8", "9">>
IsDigit(c) == \E i \in 1..10 : Digits[i] = c
DigitVal(c) == (CHOOSE i \in 1..10 : Digits[i] = c) - 1

RECURSIVE NumStr(_)
\* Number.prototype.toString for a non-negative integer.
NumStr(n) == IF n < 10 THEN <<Digits[n + 1]>>
             ELSE NumStr(n \div 10) \o <<Digits[(n % 10) + 1]>>

\* NaN: the result of parseInt on a string without leading digits (no
\* number the handler computes is below -1).
NaN == -2
IsNaN(x) == x = NaN

RECURSIVE SkipSpaces(_)
SkipSpaces(s) == IF s # <<>> /\ Head(s) = " " THEN SkipSpaces(Tail(s)) ELSE s

RECURSIVE DigitPrefix(_, _)
\* Value of the longest prefix of digits of s, acc the value read so far.
DigitPrefix(s, acc) ==
  IF s # <<>> /\ IsDigit(Head(s))
  THEN DigitPrefix(Tail(s), acc * 10 + DigitVal(Head(s)))
  ELSE acc

\* parseInt(s, 10): leading white space is skipped, then an optional "+",
\* then the longest run of digits; NaN when there is none.  (A leading "-"
\* cannot occur here: the string was split at "-".)
parseInt(s) ==
  LET t == SkipSpaces(s)
      u == IF t # <<>> /\ Head(t) = "+" THEN Tail(t) ELSE t
  IN IF u # <<>> /\ IsDigit(Head(u)) THEN DigitPrefix(u, 0) ELSE NaN

\* s starts with p.
StartsWith(s, p) == Len(s) >= Len(p) /\ SubSeq(s, 1, Len(p)) = p

BytesEq == <<"b", "y", "t", "e", "s", "=">>

\* range.replace(/bytes=/, ''): the first occurrence of "bytes=" removed.
replace(s) ==
  LET hits == { i \in 1..Len(s) : StartsWith(SubSeq(s, i, Len(s)), BytesEq) }
  IN IF hits = {} THEN s
     ELSE LET i == CHOOSE k \in hits : \A j \in hits : k <= j
          IN SubSeq(s, 1, i - 1) \o SubSeq(s, i + Len(BytesEq), Len(s))

RECURSIVE split(_)
\* s.split('-'): the pieces of s between the "-" characters.
split(s) ==
  LET dashes == { i \in 1..Len(s) : s[i] = "-" }
  IN IF dashes = {} THEN <<s>>
     ELSE LET i == CHOOSE k \in dashes : \A j \in dashes : k <= j
          IN <<SubSeq(s, 1, i - 1)>> \o split(SubSeq(s, i + 1, Len(s)))

(***************************************************************************)
(* State.                                                                  *)
(***************************************************************************)
VARIABLES
  impl,       \* which server.js runs
  now,        \* Date.now()
  videos,     \* the in-memory store: id -> entry
  persisted,  \* content of videos.json
  diskOK,     \* whether fs.writeFileSync(METADATA_FILE, ..) succeeds
  dir,        \* DATA_DIR: path -> inode number
  inodes,     \* inode number -> file content (sequence of bytes), for the
              \* inodes that a path or an open write stream refers to
  tasks,      \* the downloadFull calls made so far, in order
  uploads,    \* number of POST /admin/upload requests handled
  evicted,    \* history: the ids the cleanup task has deleted so far
  swept,      \* history: the last step was a run of the cleanup task
  sp,         \* the GET /stream-proxy request being handled
  sending     \* ids of the GET /stream/:id responses still being sent

vars == <<impl, now, videos, persisted, diskOK, dir, inodes, tasks, uploads,
          evicted, swept, sp, sending>>

\* A numeric field that is not set (undefined in the source).
Unset == -1
\* info.path of an entry without path.
NoPath == <<>>
\* The request carries no Range header.
NoRange == <<>>

\* JavaScript truthiness of a numeric field, as used by a || b.
Truthy(x) == x # Unset /\ x # 0

(***************************************************************************)
(* genId: sha1(seed + Date.now().toString()), first 12 hex digits.  The    *)
(* digest is taken to be injective on its input, so an id is modelled by   *)
(* the input itself: the seed followed by the clock value.                 *)
(***************************************************************************)
genId(seed) == Append(seed, now)

\* path.join(DATA_DIR, id) and the temporary path of a download.
FilePath(id) == <<id, "">>
TmpPath(id) == <<id, ".part">>

(***************************************************************************)
(* The file system.                                                        *)
(***************************************************************************)
Put(f, k, v) == [x \in (DOMAIN f) \cup {k} |-> IF x = k THEN v ELSE f[x]]
Remove(f, k) == [x \in (DOMAIN f) \ {k} |-> f[x]]

existsSync(p) == p \in DOMAIN dir

\* The number a new inode gets: the least one not in use.
FreshInode(ino) ==
  CHOOSE n \in 1..(Cardinality(DOMAIN ino) + 1) : n \notin DOMAIN ino

\* fs.createWriteStream(p): flags 'w', the file is created or truncated.
\* The three parts of its effect: the inode opened, the directory and the
\* inode table afterwards.
OpenFd(d, ino, p) == IF p \in DOMAIN d THEN d[p] ELSE FreshInode(ino)
OpenDir(d, ino, p) == IF p \in DOMAIN d THEN d ELSE Put(d, p, FreshInode(ino))
OpenInodes(d, ino, p) ==
  IF p \in DOMAIN d THEN [ino EXCEPT ![d[p]] = <<>>]
  ELSE Put(ino, FreshInode(ino), <<>>)

\* An inode lives as long as a path or an open file descriptor refers to
\* it: the inode table ino cut down to those directory d and the tasks ts
\* refer to.
Live(ino, d, ts) ==
  [n \in { k \in DOMAIN ino : \/ \E p \in DOMAIN d : d[p] = k
                              \/ \E i \in 1..Len(ts) : ts[i].fd = k }
     |-> ino[n]]

\* write(2) of byte b at file offset pos: a hole before pos reads as zeros.
WriteAt(data, pos, b) ==
  IF pos < Len(data) THEN [data EXCEPT ![pos + 1] = b]
  ELSE data \o [i \in 1..(pos - Len(data)) |-> 0] \o <<b>>

\* fs.renameSync(from, to), from existing.
Rename(d, from, to) ==
  [p \in ((DOMAIN d) \ {from}) \cup {to} |-> IF p = to THEN d[from] ELSE d[p]]

\* fs.unlinkSync(p) inside try/catch: a missing file is ignored.
Unlink(d, p) == IF p \in DOMAIN d THEN Remove(d, p) ELSE d

\* fs.statSync(p).size in directory d.
StatSize(d, ino, p) == Len(ino[d[p]])

\* Mutant of persist: videos.json is never rewritten.
persistNever(v) == persisted

(***************************************************************************)
(* persist(): videos.json is rewritten from the store v.                   *)
(***************************************************************************)
persist(v) == IF diskOK THEN v ELSE persisted
\* The mainframe server's persist() has no try/catch: it throws.
persistThrows == impl = "mainframe" /\ ~diskOK

\* No GET /stream-proxy request is being handled.  Of a request: pc is
\* the handler's position, range the request's Range header, origin the
\* status and Content-Range the origin answers with, statusCode and
\* contentRange what res.status() and res.setHeader() have set, sent the
\* number of body bytes relayed, headersSent res.headersSent, answered the
\* status line the client received (0: none yet), failed whether the
\* upstream connection failed, lateWrite whether a header was written
\* after the headers had been sent.
NoProxyRequest ==
  [pc |-> "idle", range |-> <<>>, origin |-> [status |-> 0, contentRange |-> <<>>],
   statusCode |-> 200, contentRange |-> <<>>, sent |-> 0, headersSent |-> FALSE,
   answered |-> 0, failed |-> FALSE, lateWrite |-> FALSE]

DoneTask(t) == [id |-> t.id, url |-> t.url, pc |-> "done", fd |-> 0, pos |-> 0]

Init ==
  /\ impl \in Impls
  /\ now = 1
  /\ videos = << >>
  /\ persisted = << >>
  /\ diskOK = TRUE
  /\ dir = << >>
  /\ inodes = << >>
  /\ tasks = << >>
  /\ uploads = 0
  /\ evicted = {}
  /\ swept = FALSE
  /\ sp = NoProxyRequest
  /\ sending = {}

\* The clock advances.
Tick ==
  /\ now < MaxTime
  /\ now' = now + 1
  /\ swept' = FALSE
  /\ UNCHANGED <<sp, sending>>
  /\ UNCHANGED <<impl, videos, persisted, diskOK, dir, inodes, tasks, uploads, evicted>>

(***************************************************************************)
(* GET /add and downloadFull(url, id)                                      *)
(***************************************************************************)
\* The entry GET /add creates.
NewEntry(url) ==
  [source |-> url, status |-> "downloading", path |-> NoPath, size |-> Unset,
   addedAt |-> now, lastAccess |-> Unset, error |-> ""]

\* GET /add?url=..: the entry is created in status downloading, the store
\* is persisted and downloadFull is started without being awaited.  The
\* proxy server's downloadFull opens the write stream on the temporary
\* path before it awaits the request; the mainframe server's opens it
\* after the response arrived.  When persist() throws (mainframe server)
\* the handler ends there and downloadFull is not called.  (A missing or
\* malformed url is answered 400 and changes nothing; every url of Urls is
\* well formed.)
Add(url) ==
  LET id == genId(<<url>>)
      v1 == Put(videos, id, NewEntry(url))
      tmp == TmpPath(id)
  IN /\ Len(tasks) + uploads < MaxReqs
     /\ videos' = v1
     /\ persisted' = persist(v1)
     /\ IF persistThrows
        THEN UNCHANGED <<dir, inodes, tasks>>
        ELSE IF impl = "proxy"
        THEN /\ dir' = OpenDir(dir, inodes, tmp)
             /\ inodes' = OpenInodes(dir, inodes, tmp)
             /\ tasks' = Append(tasks,
                  [id |-> id, url |-> url, pc |-> "fetch",
                   fd |-> OpenFd(dir, inodes, tmp), pos |-> 0])
        ELSE /\ tasks' = Append(tasks,
                  [id |-> id, url |-> url, pc |-> "fetch", fd |-> 0, pos |-> 0])
             /\ UNCHANGED <<dir, inodes>>
     /\ swept' = FALSE
     /\ UNCHANGED <<sp, sending>>
     /\ UNCHANGED <<impl, now, diskOK, uploads, evicted>>

\* The origin answers with a success status: the body starts to arrive.
FetchOk(i) ==
  LET t == tasks[i]
      tmp == TmpPath(t.id)
  IN /\ t.pc = "fetch"
     /\ IF impl = "proxy"
        THEN /\ tasks' = [tasks EXCEPT ![i].pc = "pipe"]
             /\ UNCHANGED <<dir, inodes>>
        ELSE /\ dir' = OpenDir(dir, inodes, tmp)
             /\ inodes' = OpenInodes(dir, inodes, tmp)
             /\ tasks' = [tasks EXCEPT ![i].pc = "pipe",
                                       ![i].fd = OpenFd(dir, inodes, tmp)]
     /\ swept' = FALSE
     /\ UNCHANGED <<sp, sending>>
     /\ UNCHANGED <<impl, now, videos, persisted, diskOK, uploads, evicted>>

\* The store after the catch block of downloadFull ran for id with message
\* msg, from store v.  The proxy server guards the update with
\* if (videos[id]); in the mainframe server a missing entry raises a
\* TypeError there, which leaves the store as it is too.
CatchVideos(v, id, msg) ==
  IF id \in DOMAIN v
  THEN [v EXCEPT ![id].status = "error", ![id].error = msg]
  ELSE v

\* Whether an exception leaves downloadFull when its catch block runs for
\* id from store v: only in the mainframe server, on a missing entry or a
\* failing persist().
CatchEscapes(v, id) == impl = "mainframe" /\ (id \notin DOMAIN v \/ ~diskOK)

\* The download fails: the request is rejected or answered with an error
\* status (pc = "fetch"), or the transfer or the write breaks off
\* (pc = "pipe").  In the mainframe server an error status is handled by
\* the if (!res.ok) branch, which updates the entry like the catch block.
DownloadFail(i) ==
  LET t == tasks[i]
      msg == IF t.pc = "fetch" THEN "fetch_failed" ELSE "download_failed"
      v1 == CatchVideos(videos, t.id, msg)
  IN /\ t.pc \in {"fetch", "pipe"}
     /\ videos' = v1
     /\ persisted' = IF t.id \in DOMAIN videos THEN persist(v1) ELSE persisted
     /\ tasks' = [tasks EXCEPT ![i] = DoneTask(t)]
     /\ inodes' = Live(inodes, dir, tasks')
     /\ swept' = FALSE
     /\ UNCHANGED <<sp, sending>>
     /\ UNCHANGED <<impl, now, diskOK, dir, uploads, evicted>>

\* pipeline(): the next chunk (one byte) of the body is written at the
\* write stream's file position.
Chunk(i) ==
  LET t == tasks[i]
      body == OriginBody(t.url)
  IN /\ t.pc = "pipe"
     /\ t.pos < Len(body)
     /\ inodes' = [inodes EXCEPT ![t.fd] = WriteAt(inodes[t.fd], t.pos, body[t.pos + 1])]
     /\ tasks' = [tasks EXCEPT ![i].pos = t.pos + 1]
     /\ swept' = FALSE
     /\ UNCHANGED <<sp, sending>>
     /\ UNCHANGED <<impl, now, videos, persisted, diskOK, dir, uploads, evicted>>

\* The entry of id after a finished download: status, path, size and
\* lastAccess are assigned (d, ino: the file system after the rename).
ReadyEntry(e, id, d, ino) ==
  [e EXCEPT !.status = "ready", !.path = FilePath(id),
            !.size = StatSize(d, ino, FilePath(id)), !.lastAccess = now]

\* pipeline() resolved: the temporary file is renamed to the final path
\* and the entry is updated, all in one continuation.  renameSync throws
\* when the temporary path is gone, and videos[id].status = .. throws when
\* the entry is gone; both end in the catch block, and so does a persist()
\* that throws after the entry was updated.
Complete(i) ==
  LET t == tasks[i]
      tmp == TmpPath(t.id)
      d1 == Rename(dir, tmp, FilePath(t.id))
      v1 == [videos EXCEPT ![t.id] = ReadyEntry(videos[t.id], t.id, d1, inodes)]
  IN /\ t.pc = "pipe"
     /\ t.pos = Len(OriginBody(t.url))
     /\ tasks' = [tasks EXCEPT ![i] = DoneTask(t)]
     /\ IF ~existsSync(tmp)
        THEN /\ videos' = CatchVideos(videos, t.id, "ENOENT")
             /\ persisted' = IF t.id \in DOMAIN videos
                             THEN persist(CatchVideos(videos, t.id, "ENOENT"))
                             ELSE persisted
             /\ dir' = dir
        ELSE /\ dir' = d1
             /\ IF t.id \notin DOMAIN videos
                THEN UNCHANGED <<videos, persisted>>
                ELSE IF persistThrows
                THEN /\ videos' = CatchVideos(v1, t.id, "persist")
                     /\ persisted' = persisted
                ELSE /\ videos' = v1
                     /\ persisted' = persist(v1)
     /\ inodes' = Live(inodes, dir', tasks')
     /\ swept' = FALSE
     /\ UNCHANGED <<sp, sending>>
     /\ UNCHANGED <<impl, now, diskOK, uploads, evicted>>

(***************************************************************************)
(* GET /stream/:id                                                         *)
(***************************************************************************)
\* Range headers the clients send: bytes=<a>-<b>, a and b a number, empty
\* or not a number.
RangeNums == {0, 1, 2, 3}
RangeTokens == { NumStr(n) : n \in RangeNums } \cup { <<>>, <<"x">> }
RangeHeaders == { BytesEq \o a \o <<"-">> \o b : a, b \in RangeTokens }

\* Ids the clients ask for: those of the store, those /add has answered,
\* and one that no request ever returned.
NoSuchId == <<"nosuch", 0>>
ReqIds == (DOMAIN videos) \cup { tasks[i].id : i \in 1..Len(tasks) } \cup {NoSuchId}

Min(a, b) == IF a < b THEN a ELSE b

\* Mutant of ReadRange: end taken as exclusive.
ReadRangeExclusive(data, start, end) == SubSeq(data, start + 1, Min(end, Len(data)))

\* What fs.createReadStream(filePath, {start, end}) delivers: the bytes at
\* offsets start..end that the file has.
ReadRange(data, start, end) == SubSeq(data, start + 1, Min(end + 1, Len(data)))

\* const start = parseInt(parts[0], 10)
RangeStart(range) == parseInt(split(replace(range))[1])
\* const end = parts[1] ? parseInt(parts[1], 10) : total - 1
RangeEnd(range, total) ==
  LET parts == split(replace(range))
  IN IF Len(parts) >= 2 /\ parts[2] # <<>> THEN parseInt(parts[2]) ELSE total - 1

\* if (isNaN(start) || isNaN(end) || start > end) return res.status(416)
Unsatisfiable(start, end, total) == IsNaN(start) \/ IsNaN(end) \/ start > end

\* `bytes ${start}-${end}/${total}`
ContentRange(start, end, total) ==
  <<"b", "y", "t", "e", "s", " ">> \o NumStr(start) \o <<"-">> \o NumStr(end)
    \o <<"/">> \o NumStr(total)

\* The answer of the handler for a file with content data, once the entry
\* was found: 200 with the whole file, 416 with a text, or 206 with a
\* Content-Range, a Content-Length and the bytes the read stream delivers.
\* contentRange and contentLength are the header values, <<>> when the
\* header is not sent.
RangeResponse(range, data) ==
  LET total == Len(data)
      start == RangeStart(range)
      end == RangeEnd(range, total)
  IN IF range = NoRange
     THEN [status |-> 200, contentRange |-> <<>>,
           contentLength |-> NumStr(total), body |-> data, text |-> ""]
     ELSE IF Unsatisfiable(start, end, total)
     THEN [status |-> 416, contentRange |-> <<>>, contentLength |-> <<>>,
           body |-> <<>>, text |-> "Requested Range Not Satisfiable"]
     ELSE [status |-> 206, contentRange |-> ContentRange(start, end, total),
           contentLength |-> NumStr((end - start) + 1),
           body |-> ReadRange(data, start, end), text |-> ""]

\* An answer without file content: 404 not cached, or 500 when persist()
\* threw out of the handler.
PlainResponse(status, text) ==
  [status |-> status, contentRange |-> <<>>, contentLength |-> <<>>,
   body |-> <<>>, text |-> text]

\* if (!info || !info.path || !fs.existsSync(info.path)) return 404
NotCached(id) ==
  \/ id \notin DOMAIN videos
  \/ videos[id].path = NoPath
  \/ ~existsSync(videos[id].path)

\* The file content the handler serves for a cached id.
FileOf(id) == inodes[dir[videos[id].path]]

\* What GET /stream/:id with header range answers in the current state.
StreamResponse(id, range) ==
  IF NotCached(id) THEN PlainResponse(404, "not cached")
  ELSE IF persistThrows THEN PlainResponse(500, "")
  ELSE RangeResponse(range, FileOf(id))

\* What GET /stream/:id does to the state, whatever the Range header: a
\* cached entry's lastAccess is set and the store persisted.
Stream(id) ==
  /\ IF NotCached(id)
     THEN UNCHANGED <<videos, persisted>>
     ELSE LET v1 == [videos EXCEPT ![id].lastAccess = now]
          IN /\ videos' = v1
             /\ persisted' = persist(v1)
  /\ swept' = FALSE
  /\ UNCHANGED <<sp, sending>>
  /\ UNCHANGED <<impl, now, diskOK, dir, inodes, tasks, uploads, evicted>>

(***************************************************************************)
(* Cleanup task (setInterval)                                              *)
(***************************************************************************)
\* Mutant of Last: the time of the last access is ignored.
LastAdded(info) == IF Truthy(info.addedAt) THEN info.addedAt ELSE 0

\* const last = info.lastAccess || info.addedAt || 0
Last(info) ==
  IF Truthy(info.lastAccess) THEN info.lastAccess
  ELSE IF Truthy(info.addedAt) THEN info.addedAt ELSE 0

\* Mutant of Expired: entries are kept one clock unit too long.
ExpiredLate(v, t) ==
  { id \in DOMAIN v : v[id].path # NoPath /\ t - Last(v[id]) > INACTIVITY_MS + 1 }

\* The entries one run of the cleanup task deletes at time t.
Expired(v, t) ==
  { id \in DOMAIN v : v[id].path # NoPath /\ t - Last(v[id]) > INACTIVITY_MS }

\* One run of the cleanup task: the expired entries' files are unlinked,
\* the entries deleted, the store persisted.
Sweep ==
  LET gone == Expired(videos, now)
      v1 == [id \in (DOMAIN videos) \ gone |-> videos[id]]
  IN /\ videos' = v1
     /\ dir' = [p \in (DOMAIN dir) \ { videos[id].path : id \in gone } |-> dir[p]]
     /\ persisted' = persist(v1)
     /\ inodes' = Live(inodes, dir', tasks)
     /\ evicted' = evicted \cup gone
     /\ swept' = TRUE
     /\ UNCHANGED <<sp, sending>>
     /\ UNCHANGED <<impl, now, diskOK, tasks, uploads>>

(***************************************************************************)
(* Admin endpoints (proxy server only)                                     *)
(***************************************************************************)
\* POST /admin/upload: multer has stored the file in DATA_DIR; it is
\* renamed to <id><ext> and registered as ready.  No size is recorded.
Upload(f) ==
  LET id == genId(<<f.base, f.ext, now>>)
      finalPath == <<id, f.ext>>
      v1 == Put(videos, id,
                [source |-> "", status |-> "ready", path |-> finalPath,
                 size |-> Unset, addedAt |-> now, lastAccess |-> now,
                 error |-> ""])
  IN /\ impl = "proxy"
     /\ Len(tasks) + uploads < MaxReqs
     /\ uploads' = uploads + 1
     /\ dir' = Put(dir, finalPath, FreshInode(inodes))
     /\ inodes' = Live(Put(inodes, FreshInode(inodes), f.data), dir', tasks)
     /\ videos' = v1
     /\ persisted' = persist(v1)
     /\ swept' = FALSE
     /\ UNCHANGED <<sp, sending>>
     /\ UNCHANGED <<impl, now, diskOK, tasks, evicted>>

\* POST /admin/delete: 404 for an unknown id; else the entry's file, if it
\* has one, is unlinked and the entry is removed.
Delete(id) ==
  /\ impl = "proxy"
  /\ IF id \notin DOMAIN videos
     THEN UNCHANGED <<videos, persisted, dir, inodes>>
     ELSE LET v1 == Remove(videos, id)
          IN /\ dir' = IF videos[id].path # NoPath
                       THEN Unlink(dir, videos[id].path) ELSE dir
             /\ videos' = v1
             /\ persisted' = persist(v1)
             /\ inodes' = Live(inodes, dir', tasks)
  /\ swept' = FALSE
  /\ UNCHANGED <<sp, sending>>
  /\ UNCHANGED <<impl, now, diskOK, tasks, uploads, evicted>>

Next ==
  \/ Tick
  \/ \E url \in Urls : Add(url)
  \/ \E i \in 1..Len(tasks) : FetchOk(i)
  \/ \E i \in 1..Len(tasks) : DownloadFail(i)
  \/ \E i \in 1..Len(tasks) : Chunk(i)
  \/ \E i \in 1..Len(tasks) : Complete(i)
  \/ \E id \in ReqIds : Stream(id)
  \/ Sweep
  \/ \E f \in UploadFiles : Upload(f)
  \/ \E id \in ReqIds : Delete(id)

Spec == Init /\ [][Next]_vars

(***************************************************************************)
(* GET /stream/:id whose response takes time: stream.pipe(res) sends the   *)
(* file while other handlers and timers run.                               *)
(***************************************************************************)
\* The request for a cached id is handled as by Stream(id), and the read
\* stream starts to be piped into the response.
StreamBegin(id) ==
  /\ ~NotCached(id)
  /\ ~persistThrows
  /\ LET v1 == [videos EXCEPT ![id].lastAccess = now]
     IN /\ videos' = v1
        /\ persisted' = persist(v1)
  /\ sending' = sending \cup {id}
  /\ swept' = FALSE
  /\ UNCHANGED <<impl, now, diskOK, dir, inodes, tasks, uploads, evicted, sp>>

\* The response for id has been sent to its end.
StreamEnd(id) ==
  /\ id \in sending
  /\ sending' = sending \ {id}
  /\ swept' = FALSE
  /\ UNCHANGED <<impl, now, videos, persisted, diskOK, dir, inodes, tasks,
                 uploads, evicted, sp>>

NextSend ==
  \/ Next
  \/ \E id \in ReqIds : StreamBegin(id)
  \/ \E id \in sending : StreamEnd(id)

\* The servers with GET /stream/:id responses that take time.
SpecSend == Init /\ [][NextSend]_vars

(***************************************************************************)
(* Process restart: the module is loaded again.                            *)
(***************************************************************************)
\* videos = JSON.parse(fs.readFileSync(METADATA_FILE)): the entries as
\* videos.json holds them.  Their fields are strings and numbers, which
\* JSON.stringify and JSON.parse give back as they were; a field that is
\* not set is left out of the file and is not set after loading.
LoadMetadata(file) == [id \in DOMAIN file |-> file[id]]

\* The process ends and is started again: the running downloadFull calls,
\* their write streams and the responses being sent are gone, the files of
\* DATA_DIR stay, and the store is loaded from videos.json.  Nothing
\* restarts a download.  (The proxy server's listen callback calls
\* persist(), which rewrites the file from the store just loaded.)
Restart ==
  /\ videos' = LoadMetadata(persisted)
  /\ persisted' = IF impl = "proxy" THEN persist(videos') ELSE persisted
  /\ tasks' = [i \in 1..Len(tasks) |-> DoneTask(tasks[i])]
  /\ inodes' = Live(inodes, dir, tasks')
  /\ sending' = {}
  /\ sp' = NoProxyRequest
  /\ swept' = FALSE
  /\ UNCHANGED <<impl, now, diskOK, dir, uploads, evicted>>

NextRestart == Next \/ Restart

\* The servers with restarts of the process.
SpecRestart == Init /\ [][NextRestart]_vars

(***************************************************************************)
(* GET /stream-proxy: the origin's answer is relayed without being saved.  *)
(***************************************************************************)
\* Everything but the request being handled.
cacheVars == <<impl, now, videos, persisted, diskOK, dir, inodes, tasks,
               uploads, evicted, swept, sending>>

\* Range headers of the requests, statuses and Content-Range headers the
\* origin answers with.
ProxyRanges ==
  {NoRange, BytesEq \o <<"0", "-", "0">>, BytesEq \o <<"1", "-">>}
OriginStatuses == {200, 206, 404, 500}
OriginContentRanges == {<<>>, ContentRange(0, 0, BodyLen)}

\* if (upstream.status >= 400) in the proxy server, if (!upstream.ok) in
\* the mainframe server.
UpstreamRefused(st) ==
  IF impl = "proxy" THEN st >= 400 ELSE ~(200 <= st /\ st <= 299)

\* A request with a well-formed url arrives: the origin is asked, with the
\* request's Range header.  (A missing or malformed url is answered 400.)
StreamProxy(range) ==
  /\ sp.pc \in {"idle", "done"}
  /\ sp' = [NoProxyRequest EXCEPT !.pc = "await", !.range = range]
  /\ UNCHANGED cacheVars

\* res.status(502).json(..) while no header was sent.
Answer502(r) ==
  [r EXCEPT !.statusCode = 502, !.answered = 502, !.headersSent = TRUE,
            !.pc = "done"]

\* The origin answers with status st and Content-Range cr: 502 for a
\* refused status; else the status (206 or 200) and the headers are set,
\* and the body starts to be piped.
OriginAnswers(st, cr) ==
  /\ sp.pc = "await"
  /\ st # 206 => cr = <<>>
  /\ LET r == [sp EXCEPT !.origin = [status |-> st, contentRange |-> cr]]
     IN sp' = IF UpstreamRefused(st) THEN Answer502(r)
              ELSE [r EXCEPT !.pc = "pipe",
                             !.statusCode = IF st = 206 THEN 206 ELSE 200,
                             !.contentRange = IF st = 206 THEN cr ELSE <<>>]
  /\ UNCHANGED cacheVars

\* The request to the origin fails before an answer arrives: the catch
\* block answers 502.
UpstreamFails ==
  /\ sp.pc = "await"
  /\ sp' = Answer502([sp EXCEPT !.failed = TRUE])
  /\ UNCHANGED cacheVars

\* pipeline(upstream.data, res) writes a chunk (one byte): with the first
\* one the status line and the headers go out.
RelayChunk ==
  /\ sp.pc = "pipe"
  /\ sp.sent < BodyLen
  /\ sp' = [sp EXCEPT !.sent = sp.sent + 1, !.headersSent = TRUE,
                      !.answered = sp.statusCode]
  /\ UNCHANGED cacheVars

\* The body is through: the response ends.
RelayEnd ==
  /\ sp.pc = "pipe"
  /\ sp.sent = BodyLen
  /\ sp' = [sp EXCEPT !.pc = "done", !.headersSent = TRUE,
                      !.answered = sp.statusCode]
  /\ UNCHANGED cacheVars

\* The upstream connection breaks while the body is piped: the catch block
\* runs res.status(502).json(..).  When the headers are out already,
\* res.status only sets res.statusCode and json() throws on writing a
\* header; the client keeps the status it received.
RelayFails ==
  /\ sp.pc = "pipe"
  /\ sp' = IF sp.headersSent
           THEN [sp EXCEPT !.failed = TRUE, !.statusCode = 502,
                           !.lateWrite = TRUE, !.pc = "done"]
           ELSE Answer502([sp EXCEPT !.failed = TRUE])
  /\ UNCHANGED cacheVars

NextProxy ==
  \/ \E range \in ProxyRanges : StreamProxy(range)
  \/ \E st \in OriginStatuses : \E cr \in OriginContentRanges : OriginAnswers(st, cr)
  \/ UpstreamFails
  \/ RelayChunk
  \/ RelayEnd
  \/ RelayFails

\* The servers handling GET /stream-proxy requests only.
SpecProxy == Init /\ [][NextProxy]_vars

(***************************************************************************)
(* Disk faults: fs.writeFileSync(METADATA_FILE, ..) starts and stops       *)
(* failing (disk full, directory not writable).                            *)
(***************************************************************************)
DiskBreaks ==
  /\ diskOK
  /\ diskOK' = FALSE
  /\ swept' = FALSE
  /\ UNCHANGED <<sp, sending>>
  /\ UNCHANGED <<impl, now, videos, persisted, dir, inodes, tasks, uploads, evicted>>

DiskRecovers ==
  /\ ~diskOK
  /\ diskOK' = TRUE
  /\ swept' = FALSE
  /\ UNCHANGED <<sp, sending>>
  /\ UNCHANGED <<impl, now, videos, persisted, dir, inodes, tasks, uploads, evicted>>

NextFault == Next \/ DiskBreaks \/ DiskRecovers

\* The servers on a disk that may fail.
SpecFault == Init /\ [][NextFault]_vars

(***************************************************************************)
(* Claims                                                                  *)
(***************************************************************************)
AllRanges == RangeHeaders \cup {NoRange}

\* Inode n still receives the body of a download: a write stream is open
\* on it and has not written the whole body.
BeingWritten(n) ==
  \E i \in 1..Len(tasks) :
    /\ tasks[i].pc = "pipe"
    /\ tasks[i].fd = n
    /\ tasks[i].pos < Len(OriginBody(tasks[i].url))

\* C1: a file that exists at the final path DATA_DIR/<id> is complete, and
\* a GET /stream/:id that answers 200 or 206 never reads a file whose
\* download body is still being written.
C1_StreamNeverReadsPartialFile ==
  \A id \in ReqIds :
    /\ existsSync(FilePath(id)) => ~BeingWritten(dir[FilePath(id)])
    /\ \A range \in AllRanges :
         StreamResponse(id, range).status \in {200, 206}
           => ~BeingWritten(dir[videos[id].path])

\* C2: GET /stream/:id answers 404 for an id that is not in the store and
\* for an id whose entry is not in status ready; 200 or 206 is answered
\* only for an entry in status ready whose file exists.
C2_ServedOnlyWhenReady ==
  \A id \in ReqIds : \A range \in AllRanges :
    LET r == StreamResponse(id, range)
    IN /\ (id \notin DOMAIN videos \/ videos[id].status # "ready")
            => r.status = 404
       /\ r.status \in {200, 206}
            => /\ id \in DOMAIN videos
               /\ videos[id].status = "ready"
               /\ existsSync(videos[id].path)

\* C3: the status of an entry only changes from downloading to ready or
\* from downloading to error; ready and error are never left while the
\* entry is in the store.
C3_StatusOnlyLeavesDownloading ==
  [][\A id \in (DOMAIN videos) \cap (DOMAIN videos') :
       videos[id].status # videos'[id].status
         => /\ videos[id].status = "downloading"
            /\ videos'[id].status \in {"ready", "error"}]_vars

\* C4: once the entry of an added url is ready (and still in the store),
\* GET /stream/:id without Range answers 200 with exactly the bytes the
\* origin served for its url.
C4_ReadyServesOriginBytes ==
  \A id \in DOMAIN videos :
    (videos[id].status = "ready" /\ videos[id].source \in Urls)
      => LET r == StreamResponse(id, NoRange)
         IN r.status = 200 /\ r.body = OriginBody(videos[id].source)

\* The number a token of a Range header denotes, when it is a run of
\* digits; a token that is none is unparseable.
IsNumber(tok) == tok # <<>> /\ \A i \in 1..Len(tok) : IsDigit(tok[i])
NumberOf(tok) == CHOOSE n \in RangeNums : NumStr(n) = tok
RangeHeader(a, b) == BytesEq \o a \o <<"-">> \o b

\* C5: for a cached file of size T, a request with Range: bytes=a-b where
\* a is unparseable, or b is given and unparseable, or start > end, or
\* start >= T (end being b, or T-1 when b is omitted) is answered 416
\* without file content, never 206.
C5_BadRangeIs416 ==
  \A id \in DOMAIN videos : \A a, b \in RangeTokens :
    ~NotCached(id) =>
      LET T == Len(FileOf(id))
          r == StreamResponse(id, RangeHeader(a, b))
          bad == \/ ~IsNumber(a)
                 \/ (b # <<>> /\ ~IsNumber(b))
                 \/ NumberOf(a) > (IF b = <<>> THEN T - 1 ELSE NumberOf(b))
                 \/ NumberOf(a) >= T
      IN bad => (r.status = 416 /\ r.body = <<>>)

\* C6: for a cached file of size T, a request without Range is answered
\* 200 with Content-Length T and the whole file; a request with
\* Range: bytes=a-b with 0 <= a <= end < T (end being b, or T-1 when b is
\* omitted) is answered 206 with Content-Range "bytes a-end/T",
\* Content-Length end-a+1 and the bytes a..end of the file.
C6_RangeServed ==
  \A id \in DOMAIN videos :
    ~NotCached(id) =>
      LET file == FileOf(id)
          T == Len(file)
          whole == StreamResponse(id, NoRange)
      IN /\ whole.status = 200
         /\ whole.contentLength = NumStr(T)
         /\ whole.body = file
         /\ \A a \in RangeNums : \A b \in RangeNums \cup {Unset} :
              LET end == IF b = Unset THEN T - 1 ELSE b
                  r == StreamResponse(id,
                         RangeHeader(NumStr(a), IF b = Unset THEN <<>> ELSE NumStr(b)))
              IN (a <= end /\ end < T) =>
                   /\ r.status = 206
                   /\ r.contentRange =
                        <<"b", "y", "t", "e", "s", " ">> \o NumStr(a) \o <<"-">>
                          \o NumStr(end) \o <<"/">> \o NumStr(T)
                   /\ r.contentLength = NumStr(end - a + 1)
                   /\ r.body = [i \in 1..(end - a + 1) |-> file[a + i]]

\* A cached file of two bytes or more was streamed after the clock moved
\* on from its download, and bytes=1- is answered with its bytes from
\* offset 1.
C6_Witness ==
  \E id \in DOMAIN videos :
    /\ ~NotCached(id)
    /\ Len(FileOf(id)) >= 2
    /\ videos[id].status = "ready"
    /\ videos[id].lastAccess > videos[id].addedAt
    /\ StreamResponse(id, RangeHeader(<<"1">>, <<>>)).status = 206
    /\ StreamResponse(id, RangeHeader(<<"1">>, <<>>)).body = Tail(FileOf(id))

\* The time an entry was last used: lastAccess, or addedAt when it was
\* never accessed.
LastUse(e) == IF e.lastAccess # Unset THEN e.lastAccess ELSE e.addedAt
\* Entry id of the store has a path and was not used for longer than the
\* inactivity threshold.
Stale(id) ==
  videos[id].path # NoPath /\ now - LastUse(videos[id]) > INACTIVITY_MS

\* C7: a sweep removes the entry and the file of every entry with a path
\* that was not accessed for longer than the threshold, and from then on
\* every GET /stream/:id for such an id answers 404.
C7_StaleEntryEvicted ==
  [][/\ swept' => \A id \in DOMAIN videos :
                    Stale(id) => /\ id \notin DOMAIN videos'
                                 /\ videos[id].path \notin DOMAIN dir'
                                 /\ id \in evicted'
     /\ \A id \in evicted' : \A range \in AllRanges :
          StreamResponse(id, range)'.status = 404]_vars

\* A run of the cleanup task has just ended, and an entry it or an
\* earlier run deleted is asked for: neither entry nor file is there.
C7_Witness ==
  /\ swept
  /\ \E id \in evicted :
       /\ id \notin DOMAIN videos
       /\ ~existsSync(FilePath(id))
       /\ StreamResponse(id, NoRange).status = 404

\* C8: one sweep removes exactly the entries with a path whose last use is
\* more than the threshold ago; every other entry is left as it was, and
\* so is every file but those of the removed entries.
C8_SweepRemovesExactlyStale ==
  [][swept' =>
       /\ DOMAIN videos' = { id \in DOMAIN videos : ~Stale(id) }
       /\ \A id \in DOMAIN videos' : videos'[id] = videos[id]
       /\ DOMAIN dir' =
            (DOMAIN dir) \ { videos[id].path : id \in { k \in DOMAIN videos : Stale(k) } }
       /\ \A p \in DOMAIN dir' : dir'[p] = dir[p] /\ inodes'[dir'[p]] = inodes[dir[p]]
    ]_vars

\* A run of the cleanup task has just ended at the first clock value at
\* which an entry can be stale; an entry was deleted, and the store holds
\* an older entry with a path that was used within the threshold.
C8_Witness ==
  /\ swept
  /\ evicted # {}
  /\ now = INACTIVITY_MS + 2
  /\ \E id \in DOMAIN videos :
       /\ videos[id].path # NoPath
       /\ videos[id].addedAt < now
       /\ ~Stale(id)

\* C9: when an entry is destroyed its file is removed too, so that no
\* file is left at a final path (a path other than a temporary .part
\* path) whose id has no entry.
C9_NoFileWithoutEntry ==
  \A p \in DOMAIN dir : p[2] # ".part" => p[1] \in DOMAIN videos

\* C10: any two GET /add calls produce distinct ids: no two downloadFull
\* calls were started for the same id.
C10_AddIdsDistinct ==
  \A i, j \in 1..Len(tasks) : i # j => tasks[i].id # tasks[j].id

\* Task i is a downloadFull call that has not returned.
InFlight(i) == tasks[i].pc \in {"fetch", "pipe"}

\* C11: at most one background download is in flight for an id: no two
\* downloadFull calls that have not returned work on the same id, and so
\* on the same temporary and the same final path.
C11_OneDownloadPerId ==
  \A i, j \in 1..Len(tasks) :
    (i # j /\ InFlight(i) /\ InFlight(j)) => tasks[i].id # tasks[j].id

\* C12: an entry has a path exactly if a complete file that is not a
\* .part file exists there (for an entry without path: at the final path
\* of its id), and an entry in status downloading or error has no path.
C12_PathIffCompleteFile ==
  \A id \in DOMAIN videos :
    LET e == videos[id]
    IN /\ e.path # NoPath =>
            /\ existsSync(e.path)
            /\ e.path[2] # ".part"
            /\ ~BeingWritten(dir[e.path])
       /\ e.path = NoPath => ~existsSync(FilePath(id))
       /\ e.status \in {"downloading", "error"} => e.path = NoPath

\* C13: whenever an entry becomes ready (by a finished download or by an
\* upload), its size field is the byte length its file has at that moment.
C13_ReadyHasSize ==
  [][\A id \in DOMAIN videos' :
       (/\ videos'[id].status = "ready"
        /\ (id \notin DOMAIN videos \/ videos[id].status # "ready"))
         => /\ videos'[id].path \in DOMAIN dir'
            /\ videos'[id].size = StatSize(dir', inodes', videos'[id].path)]_vars

\* C14: where writing videos.json succeeds, videos.json equals the store
\* after every operation: no operation changes the store without
\* persisting it.
C14_StorePersisted == persisted = videos

\* The store was changed by a sweep that deleted an entry and by a failed
\* download, and videos.json holds it.
C14_Witness ==
  /\ persisted = videos
  /\ evicted # {}
  /\ \E id \in DOMAIN persisted : persisted[id].status = "error"

\* GET /stream/:id serves every cached id: no answer is a 500.
StreamServes ==
  \A id \in DOMAIN videos : \A range \in AllRanges :
    ~NotCached(id) => StreamResponse(id, range).status \in {200, 206, 416}

\* C15: a failing write of videos.json changes nothing else: every entry
\* GET /add created has had its download started, no finished download
\* has left its entry in status error because of persist(), and
\* GET /stream/:id serves the cached files.
C15_PersistFailureHarmless ==
  /\ \A id \in DOMAIN videos :
       videos[id].source \in Urls => \E i \in 1..Len(tasks) : tasks[i].id = id
  /\ \A id \in DOMAIN videos : videos[id].error # "persist"
  /\ StreamServes

\* C16: while an entry stays in the store under its id, its lastAccess
\* never decreases and never goes from set to unset.
C16_LastAccessMonotone ==
  [][\A id \in (DOMAIN videos) \cap (DOMAIN videos') :
       /\ videos[id].lastAccess # Unset => videos'[id].lastAccess # Unset
       /\ videos'[id].lastAccess >= videos[id].lastAccess]_vars

\* C17: a GET /stream-proxy request that has ended was answered 502 when
\* the upstream connection failed at any point, 502 when the origin
\* answered a status of 400 or more, and else the origin's 200 or 206, a
\* 206 with the origin's Content-Range; and no header was written after
\* the headers had been sent.
C17_ProxyAnswersOnce ==
  /\ ~sp.lateWrite
  /\ sp.pc = "done" =>
       IF sp.failed \/ sp.origin.status >= 400 THEN sp.answered = 502
       ELSE /\ sp.answered = sp.origin.status
            /\ sp.answered = 206 => sp.contentRange = sp.origin.contentRange

\* C18: every 206 answer of GET /stream/:id for a file of size T declares
\* a Content-Range "bytes a-b/T" with 0 <= a <= b <= T-1, and the body it
\* streams has as many bytes as its Content-Length says.
C18_DeclaredRangeIsStreamed ==
  \A id \in DOMAIN videos : \A range \in RangeHeaders :
    ~NotCached(id) =>
      LET T == Len(FileOf(id))
          r == StreamResponse(id, range)
      IN r.status = 206 =>
           /\ \E a, b \in 0..(T - 1) :
                a <= b /\ r.contentRange = ContentRange(a, b, T)
           /\ r.contentLength = NumStr(Len(r.body))

\* C19: when a download finishes, by success or by failure, for an id
\* that is not in the store, the store is left as it is and no exception
\* leaves downloadFull.
C19_FinishWithoutEntry ==
  [][\A i \in 1..Len(tasks) :
       (/\ InFlight(i)
        /\ tasks'[i].pc = "done"
        /\ tasks[i].id \notin DOMAIN videos)
         => /\ videos' = videos
            /\ ~CatchEscapes(videos, tasks[i].id)]_vars

\* C20: a run of the cleanup task removes neither the entry nor the file
\* of an id whose GET /stream/:id response is still being sent.
C20_NoEvictionWhileSending ==
  [][swept' =>
       \A id \in sending \cap DOMAIN videos :
         /\ id \in DOMAIN videos'
         /\ existsSync(videos[id].path) => videos[id].path \in DOMAIN dir']_vars

\* C21: every entry in status downloading has a downloadFull call for its
\* id that has not returned.
C21_DownloadingHasDownload ==
  \A id \in DOMAIN videos :
    videos[id].status = "downloading"
      => \E i \in 1..Len(tasks) : InFlight(i) /\ tasks[i].id = id

====
